---- MODULE Spec2Model ----
(***************************************************************************)
(* Host election, heartbeat, failover and state replication of GameP2P     *)
(* (src/arrasio/src/client/js/p2p-game.js, extended by p2p-game-welcome.js)*)
(* over the Pulgram group broadcast.                                       *)
(*                                                                         *)
(* Every peer is one GameP2P object.  Time is counted in steps of the      *)
(* smallest timer of the program (the 500 ms welcome delay); the two       *)
(* timestamps lastHostHeartbeat and lastStateUpdate are kept as the time   *)
(* elapsed since they were written (Date.now() - field), which is the only *)
(* way the code reads them; an elapsed time stops growing once it is past  *)
(* every threshold the code compares it with.  Timers are countdowns.      *)
(***************************************************************************)
EXTENDS Integers, Sequences, FiniteSets, TLC

\* ------------------------------------------------------------------------
\* Program constants (milliseconds)
HOST_CHECK_MS == 3000
SETTLE_MS == 2000
HEARTBEAT_MS == 1000
WELCOME_MS == 500
HOST_TIMEOUT_MS == 5000
RECENT_STATE_MS == 10000

\* One step of the clock is the welcome delay, the smallest timer.
Ticks(ms) == ms \div WELCOME_MS
Ms(ticks) == ticks * WELCOME_MS

\* Elapsed times saturate beyond every threshold they are compared with.
HeartbeatAgeCap == Ticks(HOST_TIMEOUT_MS + HOST_CHECK_MS) + 1
StateAgeCap == Ticks(RECENT_STATE_MS)
\* lastHostHeartbeat = 0, no heartbeat accepted yet: elapsed since 1970
NeverHeard == HeartbeatAgeCap + 1

\* ------------------------------------------------------------------------
\* Bounds of the model: the clock steps a run lasts
MaxTime == 4
MaxElectionTime == 8
MaxFailoverTime == 19
MaxSessionTime == 8
MaxJoinTime == 5
MaxReplicationTime == 7
MaxStartTime == 6
MaxInputTime == 8
\* the envelopes the transport drops in a run
MaxLost == 1
\* the calls from outside the protocol that one peer gets in one clock step:
\* snapshots its game publishes, chat messages that are no game envelopes
MaxPublish == 1

\* ------------------------------------------------------------------------
\* Peer ids are strings; a string is the sequence of its character codes.
\* "10", "3" and "9": the lexicographic order differs from the numeric one.
PeerIds == { <<1, 0>>, <<3>>, <<9>> }
\* null / undefined
None == << >>

\* JavaScript a > b on strings
RECURSIVE StrGreater(_, _)
StrGreater(a, b) ==
    IF a = << >> THEN FALSE
    ELSE IF b = << >> THEN TRUE
    ELSE IF Head(a) > Head(b) THEN TRUE
    ELSE IF Head(a) < Head(b) THEN FALSE
    ELSE StrGreater(Tail(a), Tail(b))

\* session ids (localStorage 'p2p-gameId' or 'game-' + Date.now())
GameIds == { "game-1", "game-2" }

\* ------------------------------------------------------------------------
\* The state blob S.  A value is a string (tag "string", text str) or an
\* object (tag "object") with top-level fields f; str of an object is the
\* string whose characters were spread into it by a delta merge.
Fields == { "a", "b" }
Absent == "absent"
NoFields == [k \in Fields |-> Absent]
StrState(text) == [tag |-> "string", str |-> text, f |-> NoFields]
ObjState(fa, fb) == [tag |-> "object", str |-> "", f |-> [k \in Fields |-> IF k = "a" THEN fa ELSE fb]]
Undefined == [tag |-> "undefined", str |-> "", f |-> NoFields]
\* the snapshots the simulation publishes
Snapshots == { ObjState("1", "1"), ObjState("2", Absent) }

Truthy(v) == v.tag = "object" \/ (v.tag = "string" /\ v.str # "")

\* {...g, ...d}
SpreadMerge(g, d) ==
    [tag |-> "object",
     str |-> IF d.tag = "string" THEN d.str ELSE IF g.tag = "string" THEN g.str ELSE g.str,
     f |-> [k \in Fields |-> IF d.f[k] # Absent THEN d.f[k] ELSE g.f[k]]]

\* ------------------------------------------------------------------------
\* Timers: a countdown in clock steps, Off when not set
Off == 0 - 1

\* ------------------------------------------------------------------------
VARIABLES
    group,          \* the members of the group chat
    p2p,            \* p2p[id]: the fields of the GameP2P object of peer id
    net,            \* envelopes handed to the transport and not yet delivered
    selfDelivering, \* whether the transport delivers a peer's own broadcasts to it
    last,           \* the handler that ran last, the state it started from, what it sent
    focus,          \* the peer that is handling the envelopes held for it, or None
    now,            \* clock steps since the first peer started
    lost            \* the number of envelopes the transport has dropped so far

vars == << group, p2p, net, selfDelivering, last, focus, now, lost >>

\* constructor
Constructed(id) ==
    [ peerId |-> id,
      isHost |-> FALSE,
      hostId |-> None,
      players |-> {},
      gameState |-> StrState("connecting"),
      sinceHostHeartbeat |-> NeverHeard,
      sinceStateUpdate |-> StateAgeCap,
      hostCheckInterval |-> Off,
      heartbeatInterval |-> Off,
      heartbeatTimers |-> 0,
      gameId |-> "",
      initialized |-> FALSE,
      electionTimeouts |-> {},
      welcomeTimeouts |-> {},
      disposed |-> FALSE,
      finalized |-> 0,
      published |-> 0 ]

\* createGameMessage / the content of an envelope
Envelope(sub, gid, cand, host, state, delta, rcpt) ==
    [ subType |-> sub, gameId |-> gid, candidateId |-> cand, hostId |-> host,
      state |-> state, isDelta |-> delta, intendedRecipient |-> rcpt,
      timestamp |-> TRUE ]

\* what a handler yields: the new fields, the envelopes sent, the callbacks fired
Result(s, send, cb) == [ s |-> s, send |-> send, cb |-> cb ]


NoSend == {}
NoCallback == << >>
Callback(name, id, flag) == [ name |-> name, id |-> id, flag |-> flag ]

\* lastStateUpdate && Date.now() - lastStateUpdate < 10000
RecentStateUpdate(s) == Ms(s.sinceStateUpdate) < RECENT_STATE_MS

\* Date.now() - lastHostHeartbeat > 5000
HeartbeatOverdue(s) == Ms(s.sinceHostHeartbeat) > HOST_TIMEOUT_MS

\* ------------------------------------------------------------------------
\* GameP2P methods, each from the fields s of one peer to a Result

startHostElection(s) ==
    Result([s EXCEPT !.electionTimeouts = @ \cup { Ticks(SETTLE_MS) }],
           { Envelope("HOST_ELECTION", s.gameId, s.peerId, None, Undefined, FALSE, None) },
           NoCallback)

\* without the test of initialized
initialize_Again(s, storedGameId) ==
    LET s1 == [s EXCEPT !.hostCheckInterval = Ticks(HOST_CHECK_MS),
                        !.gameId = IF @ = "" THEN storedGameId ELSE @,
                        !.initialized = TRUE]
        join == Envelope("PLAYER_JOIN", s1.gameId, None, None, Undefined, FALSE, None)
        e == IF s1.hostId = None THEN startHostElection(s1)
             ELSE Result(s1, NoSend, NoCallback)
    IN Result(e.s, { join } \cup e.send, e.cb)

initialize(s, storedGameId) ==
    IF s.initialized THEN Result(s, NoSend, NoCallback)
    ELSE LET s1 == [s EXCEPT !.hostCheckInterval = Ticks(HOST_CHECK_MS),
                             !.gameId = IF @ = "" THEN storedGameId ELSE @,
                             !.initialized = TRUE]
             join == Envelope("PLAYER_JOIN", s1.gameId, None, None, Undefined, FALSE, None)
             e == IF s1.hostId = None THEN startHostElection(s1)
                  ELSE Result(s1, NoSend, NoCallback)
         IN Result(e.s, { join } \cup e.send, e.cb)

\* the comparison the wrong way round
handleHostElection_Lower(s, m, senderId) ==
    IF RecentStateUpdate(s)
    THEN Result([s EXCEPT !.isHost = FALSE], NoSend, NoCallback)
    ELSE IF StrGreater(s.peerId, m.candidateId)
         THEN Result([s EXCEPT !.hostId = m.candidateId, !.isHost = FALSE], NoSend, NoCallback)
         ELSE Result(s, NoSend, NoCallback)

\* a candidate equal to the own id counts as greater
handleHostElection_OrEqual(s, m, senderId) ==
    IF RecentStateUpdate(s)
    THEN Result([s EXCEPT !.isHost = FALSE], NoSend, NoCallback)
    ELSE IF ~StrGreater(s.peerId, m.candidateId)
         THEN Result([s EXCEPT !.hostId = m.candidateId, !.isHost = FALSE], NoSend, NoCallback)
         ELSE Result(s, NoSend, NoCallback)

\* a demotion stops the heartbeat interval
handleHostElection_StopsHeartbeat(s, m, senderId) ==
    IF RecentStateUpdate(s)
    THEN Result([s EXCEPT !.isHost = FALSE, !.heartbeatInterval = Off,
                          !.heartbeatTimers = 0], NoSend, NoCallback)
    ELSE IF StrGreater(m.candidateId, s.peerId)
         THEN Result([s EXCEPT !.hostId = m.candidateId, !.isHost = FALSE,
                               !.heartbeatInterval = Off,
                               !.heartbeatTimers = 0], NoSend, NoCallback)
         ELSE Result(s, NoSend, NoCallback)

handleHostElection(s, m, senderId) ==
    IF RecentStateUpdate(s)
    THEN Result([s EXCEPT !.isHost = FALSE], NoSend, NoCallback)
    ELSE IF StrGreater(m.candidateId, s.peerId)
         THEN Result([s EXCEPT !.hostId = m.candidateId, !.isHost = FALSE], NoSend, NoCallback)
         ELSE Result(s, NoSend, NoCallback)

\* sets no interval
startHostHeartbeat_Never(s) == s

\* sets a new interval without clearing the one it has
startHostHeartbeat_Leaks(s) ==
    IF ~s.isHost THEN s
    ELSE [s EXCEPT !.heartbeatInterval = Ticks(HEARTBEAT_MS),
                   !.heartbeatTimers = @ + 1]

\* heartbeatTimers counts the intervals set by setInterval and not cleared
startHostHeartbeat(s) ==
    IF ~s.isHost THEN s
    ELSE LET cleared == IF s.heartbeatInterval # Off
                        THEN [s EXCEPT !.heartbeatInterval = Off, !.heartbeatTimers = @ - 1]
                        ELSE s
         IN [cleared EXCEPT !.heartbeatInterval = Ticks(HEARTBEAT_MS),
                            !.heartbeatTimers = @ + 1]

\* becomeHost of p2p-game.js
originalBecomeHost(s) ==
    LET s1 == [s EXCEPT !.hostId = s.peerId, !.isHost = TRUE]
    IN Result(startHostHeartbeat(s1),
              { Envelope("HOST_ASSIGNMENT", s.gameId, None, s.peerId, Undefined, FALSE, None) },
              << Callback("onHostChanged", s.peerId, TRUE) >>)

\* becomeHost as replaced by p2p-game-welcome.js
becomeHost(s) ==
    LET r == originalBecomeHost(s)
    IN Result([r.s EXCEPT !.welcomeTimeouts = @ \cup { Ticks(WELCOME_MS) }], r.send, r.cb)

\* promotes itself whatever host it knows
finalizeHostElection_Always(s) ==
    IF RecentStateUpdate(s) THEN Result(s, NoSend, NoCallback)
    ELSE becomeHost(s)

\* without the check for recent state updates
finalizeHostElection_NoGuard(s) ==
    IF s.hostId = None THEN becomeHost(s)
    ELSE IF s.hostId = s.peerId THEN becomeHost(s)
    ELSE Result([s EXCEPT !.isHost = FALSE], NoSend, NoCallback)

\* promotes itself only when it already names itself as host
finalizeHostElection_NeedsHost(s) ==
    IF RecentStateUpdate(s) THEN Result(s, NoSend, NoCallback)
    ELSE IF s.hostId = s.peerId THEN becomeHost(s)
    ELSE Result([s EXCEPT !.isHost = FALSE], NoSend, NoCallback)

finalizeHostElection(s) ==
    IF RecentStateUpdate(s) THEN Result(s, NoSend, NoCallback)
    ELSE IF s.hostId = None THEN becomeHost(s)
    ELSE IF s.hostId = s.peerId THEN becomeHost(s)
    ELSE Result([s EXCEPT !.isHost = FALSE], NoSend, NoCallback)

\* the body of the heartbeat interval
heartbeatTick(s) ==
    Result(s, { Envelope("HOST_HEARTBEAT", s.gameId, None, s.hostId, Undefined, FALSE, None) },
           NoCallback)

\* accepts the heartbeat of any sender
handleHostHeartbeat_Any(s, m, senderId) ==
    Result([s EXCEPT !.sinceHostHeartbeat = 0], NoSend, NoCallback)

handleHostHeartbeat(s, m, senderId) ==
    IF s.hostId # senderId THEN Result(s, NoSend, NoCallback)
    ELSE Result([s EXCEPT !.sinceHostHeartbeat = 0], NoSend, NoCallback)

\* a Host keeps its role whatever host is announced
handleHostAssignment_KeepHost(s, m, senderId) ==
    IF s.isHost THEN Result(s, NoSend, << Callback("onHostChanged", s.hostId, s.isHost) >>)
    ELSE LET s1 == [s EXCEPT !.hostId = m.hostId, !.isHost = (m.hostId = s.peerId)]
         IN Result(s1, NoSend, << Callback("onHostChanged", s1.hostId, s1.isHost) >>)

handleHostAssignment(s, m, senderId) ==
    LET s1 == [s EXCEPT !.hostId = m.hostId, !.isHost = (m.hostId = s.peerId)]
    IN Result(s1, NoSend, << Callback("onHostChanged", s1.hostId, s1.isHost) >>)

\* checks the heartbeats whatever the role
checkHostStatus_HostToo(s) ==
    IF s.hostId # None /\ HeartbeatOverdue(s)
    THEN startHostElection([s EXCEPT !.hostId = None])
    ELSE Result(s, NoSend, NoCallback)

checkHostStatus(s) ==
    IF s.isHost THEN Result(s, NoSend, NoCallback)
    ELSE IF s.hostId # None /\ HeartbeatOverdue(s)
         THEN startHostElection([s EXCEPT !.hostId = None])
         ELSE Result(s, NoSend, NoCallback)

\* every peer answers with its state
handlePlayerJoin_Everyone(s, m, senderId) ==
    LET s1 == [s EXCEPT !.players = @ \cup { senderId }]
        catchUp == IF Truthy(s.gameState)
                   THEN { Envelope("GAME_STATE_UPDATE", s.gameId, None, None, s.gameState, FALSE, senderId) }
                   ELSE NoSend
    IN Result(s1, catchUp, << Callback("onPlayerJoined", senderId, FALSE) >>)

handlePlayerJoin(s, m, senderId) ==
    LET s1 == [s EXCEPT !.players = @ \cup { senderId }]
        catchUp == IF s.isHost /\ Truthy(s.gameState)
                   THEN { Envelope("GAME_STATE_UPDATE", s.gameId, None, None, s.gameState, FALSE, senderId) }
                   ELSE NoSend
    IN Result(s1, catchUp, << Callback("onPlayerJoined", senderId, FALSE) >>)

handlePlayerLeave(s, m, senderId) ==
    Result([s EXCEPT !.players = @ \ { senderId }], NoSend,
           << Callback("onPlayerLeft", senderId, FALSE) >>)

\* never names the host it sends to
sendPlayerInput_Broadcast(s) ==
    IF s.isHost THEN Result(s, NoSend, NoCallback)
    ELSE Result(s, { Envelope("PLAYER_INPUT", s.gameId, None, None, Undefined, FALSE, None) },
                NoCallback)

sendPlayerInput(s) ==
    IF s.isHost THEN Result(s, NoSend, NoCallback)
    ELSE Result(s, { Envelope("PLAYER_INPUT", s.gameId, None, None, Undefined, FALSE, s.hostId) },
                NoCallback)

\* without the test of the role
handlePlayerInput_Anyone(s, m, senderId) ==
    Result(s, NoSend, << Callback("onPlayerInput", senderId, FALSE) >>)

\* the Host records the sender of an input as a member
handlePlayerInput_Seen(s, m, senderId) ==
    IF ~s.isHost THEN Result(s, NoSend, NoCallback)
    ELSE Result([s EXCEPT !.players = @ \cup { senderId }], NoSend,
                << Callback("onPlayerInput", senderId, FALSE) >>)

handlePlayerInput(s, m, senderId) ==
    IF ~s.isHost THEN Result(s, NoSend, NoCallback)
    ELSE Result(s, NoSend, << Callback("onPlayerInput", senderId, FALSE) >>)

\* without the test of the role
updateGameState_Anyone(s, state, delta) ==
    Result([s EXCEPT !.gameState = state],
           { Envelope("GAME_STATE_UPDATE", s.gameId, None, None, state, delta, None) },
           NoCallback)

updateGameState(s, state, delta) ==
    IF ~s.isHost THEN Result(s, NoSend, NoCallback)
    ELSE Result([s EXCEPT !.gameState = state],
                { Envelope("GAME_STATE_UPDATE", s.gameId, None, None, state, delta, None) },
                NoCallback)

\* adopts the sender as host and keeps the role
handleGameStateUpdate_KeepRole(s, m, senderId) ==
    LET stateToUse == IF Truthy(m.state) THEN m.state ELSE ObjState(Absent, Absent)
        changed == s.hostId # senderId
        s1 == [s EXCEPT !.sinceStateUpdate = 0,
                        !.hostId = IF changed THEN senderId ELSE @]
        applied == IF m.isDelta THEN SpreadMerge(s.gameState, stateToUse) ELSE stateToUse
        first == applied = StrState("connecting")
        s2 == [s1 EXCEPT !.gameState = IF first THEN StrState("connected") ELSE applied]
    IN Result(s2, NoSend,
              (IF changed THEN << Callback("onHostChanged", senderId, FALSE) >> ELSE << >>)
              \o (IF first THEN << Callback("onGameConnected", None, FALSE) >> ELSE << >>)
              \o << Callback("onGameStateUpdated", None, m.isDelta) >>)

\* takes the role back when the sender already is the host
handleGameStateUpdate_Toggle(s, m, senderId) ==
    LET stateToUse == IF Truthy(m.state) THEN m.state ELSE ObjState(Absent, Absent)
        changed == s.hostId # senderId
        s1 == [s EXCEPT !.sinceStateUpdate = 0,
                        !.hostId = senderId,
                        !.isHost = ~changed]
        applied == IF m.isDelta THEN SpreadMerge(s.gameState, stateToUse) ELSE stateToUse
    IN Result([s1 EXCEPT !.gameState = applied], NoSend,
              << Callback("onGameStateUpdated", None, m.isDelta) >>)

handleGameStateUpdate(s, m, senderId) ==
    LET stateToUse == IF Truthy(m.state) THEN m.state ELSE ObjState(Absent, Absent)
        changed == s.hostId # senderId
        s1 == [s EXCEPT !.sinceStateUpdate = 0,
                        !.hostId = IF changed THEN senderId ELSE @,
                        !.isHost = IF changed THEN FALSE ELSE @]
        applied == IF m.isDelta THEN SpreadMerge(s.gameState, stateToUse) ELSE stateToUse
        first == applied = StrState("connecting")
        s2 == [s1 EXCEPT !.gameState = IF first THEN StrState("connected") ELSE applied]
    IN Result(s2, NoSend,
              (IF changed THEN << Callback("onHostChanged", senderId, FALSE) >> ELSE << >>)
              \o (IF first THEN << Callback("onGameConnected", None, FALSE) >> ELSE << >>)
              \o << Callback("onGameStateUpdated", None, m.isDelta) >>)

\* p2p-game-welcome.js
handleWelcomeMessage(s, m) ==
    LET s1 == [s EXCEPT !.gameId = m.gameId, !.hostId = m.hostId]
        s2 == [s1 EXCEPT !.isHost = IF s.peerId = m.hostId THEN TRUE ELSE @,
                         !.gameState = StrState("connected")]
    IN Result(s2, NoSend, << Callback("onGameConnected", None, FALSE) >>)

sendWelcomeToAllPeers(s) ==
    IF ~s.isHost THEN Result(s, NoSend, NoCallback)
    ELSE Result(s, { Envelope("welcome", s.gameId, None, s.hostId, Undefined, FALSE, None) },
                NoCallback)

\* handleMessage of p2p-game.js
originalHandleMessage(s, m, senderId) ==
    IF m.subType = "GAME_STATE_UPDATE" \/ (Truthy(m.state) /\ m.timestamp)
    THEN handleGameStateUpdate(s, m, senderId)
    ELSE IF m.subType = "" THEN Result(s, NoSend, NoCallback)
    ELSE IF m.gameId # "" /\ m.gameId # s.gameId THEN Result(s, NoSend, NoCallback)
    ELSE CASE m.subType = "HOST_ELECTION" -> handleHostElection(s, m, senderId)
           [] m.subType = "HOST_HEARTBEAT" -> handleHostHeartbeat(s, m, senderId)
           [] m.subType = "HOST_ASSIGNMENT" -> handleHostAssignment(s, m, senderId)
           [] m.subType = "PLAYER_JOIN" -> handlePlayerJoin(s, m, senderId)
           [] m.subType = "PLAYER_LEAVE" -> handlePlayerLeave(s, m, senderId)
           [] m.subType = "PLAYER_INPUT" -> handlePlayerInput(s, m, senderId)
           [] OTHER -> Result(s, NoSend, NoCallback)

\* handleMessage as replaced by p2p-game-welcome.js
handleMessage(s, m, senderId) ==
    IF m.subType = "welcome" THEN handleWelcomeMessage(s, m)
    ELSE originalHandleMessage(s, m, senderId)

\* what the bridge hands to the listener: a payload that decodes to a
\* content, or one that does not (no JSON, or null)
Raw(decodes, content) == [ decodes |-> decodes, content |-> content ]

\* the listener registered by initialize(): decoding, then dispatch
onMessageReceived(s, raw, senderId) ==
    IF ~raw.decodes THEN Result(s, NoSend, NoCallback)
    ELSE handleMessage(s, raw.content, senderId)

dispose(s) ==
    Result([s EXCEPT !.heartbeatInterval = Off,
                     !.heartbeatTimers = IF s.heartbeatInterval # Off THEN @ - 1 ELSE @,
                     !.hostCheckInterval = Off,
                     !.disposed = TRUE],
           NoSend, NoCallback)


\* ------------------------------------------------------------------------
\* The transport: window.pulgram.sendMessage hands an envelope to the group
\* chat; every member of the group gets a copy (the sender too on a
\* self-delivering transport), stamped with the sender's id.  A copy reaches
\* the listener its receiver registered in initialize(), within the clock
\* step it was sent in, unless the transport loses it.
Recipients(from) ==
    { q \in group : q # from \/ selfDelivering }

InFlight(from, envs) ==
    { [ env |-> e, senderId |-> from, to |-> q ] : e \in envs, q \in Recipients(from) }

NoEnvelope == Envelope("", "", None, None, Undefined, FALSE, None)

Ran(op, id, env, senderId, r) ==
    [ op |-> op, peer |-> id, env |-> env, senderId |-> senderId,
      pre |-> p2p[id], send |-> r.send, cb |-> r.cb ]

Idle(op) ==
    [ op |-> op, peer |-> None, env |-> NoEnvelope, senderId |-> None,
      pre |-> Constructed(None), send |-> NoSend, cb |-> NoCallback ]

Turn(id) == focus \in { None, id }

Refocus(id, pending) ==
    IF \E d \in pending : d.to = id THEN id ELSE None

\* a method of peer id ran to completion with result r
Step(op, id, env, senderId, r, pending) ==
    /\ Turn(id)
    /\ p2p' = [p2p EXCEPT ![id] = r.s]
    /\ net' = pending \cup InFlight(id, r.send)
    /\ last' = Ran(op, id, env, senderId, r)
    /\ focus' = IF op = "handleMessage" \/ focus = id THEN Refocus(id, net') ELSE focus
    /\ UNCHANGED << group, selfDelivering, now, lost >>

\* ------------------------------------------------------------------------
\* the peers of a group chat, none of them started
InitGroup(members) ==
    /\ group = members
    /\ p2p = [id \in PeerIds |-> Constructed(id)]
    /\ net = {}
    /\ selfDelivering \in BOOLEAN
    /\ last = Idle("constructor")
    /\ focus = None
    /\ now = 0
    /\ lost = 0

\* 'pulgramready': initialize()
Start(id, storedGameId) ==
    /\ id \in group
    /\ ~p2p[id].initialized
    /\ Step("initialize", id, NoEnvelope, None, initialize(p2p[id], storedGameId), net)

\* 'pulgramready' is dispatched once more: initialize() on a started peer
Restart(id, storedGameId) ==
    /\ id \in group
    /\ p2p[id].initialized
    /\ Step("initialize", id, NoEnvelope, None, initialize(p2p[id], storedGameId), net)

\* the transport invokes the message listener of the receiver
Deliver(d) ==
    /\ d \in net
    /\ p2p[d.to].initialized
    /\ Step("handleMessage", d.to, d.env, d.senderId,
            handleMessage(p2p[d.to], d.env, d.senderId), net \ { d })

\* an envelope for a member that has not registered its listener yet (its
\* page is not loaded) reaches no handler
Miss(d) ==
    /\ d \in net
    /\ ~p2p[d.to].initialized
    /\ focus = None
    /\ net' = net \ { d }
    /\ last' = Idle("miss")
    /\ UNCHANGED << group, p2p, selfDelivering, focus, now, lost >>

\* the transport drops an envelope
Lose(d) ==
    /\ d \in net
    /\ Turn(d.to)
    /\ net' = net \ { d }
    /\ lost < MaxLost
    /\ lost' = lost + 1
    /\ last' = Idle("lose")
    /\ focus' = IF focus = d.to THEN Refocus(d.to, net') ELSE focus
    /\ UNCHANGED << group, p2p, selfDelivering, now >>

\* setInterval(() => this.checkHostStatus(), 3000)
HostCheckFires(id) ==
    /\ p2p[id].hostCheckInterval = 0
    /\ LET s == [p2p[id] EXCEPT !.hostCheckInterval = Ticks(HOST_CHECK_MS)]
       IN Step("checkHostStatus", id, NoEnvelope, None, checkHostStatus(s), net)

\* the heartbeat interval of startHostHeartbeat
HeartbeatFires(id) ==
    /\ p2p[id].heartbeatInterval = 0
    /\ LET s == [p2p[id] EXCEPT !.heartbeatInterval = Ticks(HEARTBEAT_MS)]
       IN Step("heartbeat", id, NoEnvelope, None, heartbeatTick(s), net)

\* setTimeout(() => this.finalizeHostElection(), 2000)
SettlementFires(id) ==
    /\ 0 \in p2p[id].electionTimeouts
    /\ LET s == [p2p[id] EXCEPT !.electionTimeouts = @ \ { 0 },
                                !.finalized = IF @ < 2 THEN @ + 1 ELSE @]
       IN Step("finalizeHostElection", id, NoEnvelope, None, finalizeHostElection(s), net)

\* the 500 ms timeout of becomeHost in p2p-game-welcome.js
WelcomeFires(id) ==
    /\ 0 \in p2p[id].welcomeTimeouts
    /\ LET s == [p2p[id] EXCEPT !.welcomeTimeouts = @ \ { 0 }]
       IN Step("sendWelcomeToAllPeers", id, NoEnvelope, None, sendWelcomeToAllPeers(s), net)

\* a timer of the peer is due now
TimerDue(s) ==
    \/ s.hostCheckInterval = 0
    \/ s.heartbeatInterval = 0
    \/ 0 \in s.electionTimeouts
    \/ 0 \in s.welcomeTimeouts

\* the simulation publishes a snapshot (ArrasP2PAdapter.broadcastGameState)
Publish(id, state, delta) ==
    /\ net = {}
    /\ \A q \in PeerIds : ~TimerDue(p2p[q])
    /\ p2p[id].initialized
    /\ ~p2p[id].disposed
    /\ p2p[id].isHost
    /\ p2p[id].published < MaxPublish
    /\ LET s == [p2p[id] EXCEPT !.published = @ + 1]
       IN Step("updateGameState", id, NoEnvelope, None, updateGameState(s, state, delta), net)

\* the game calls updateGameState of its peer, Host or not
UpdateGameState(id, state, delta) ==
    /\ net = {}
    /\ \A q \in PeerIds : ~TimerDue(p2p[q])
    /\ p2p[id].initialized
    /\ ~p2p[id].disposed
    /\ p2p[id].published < MaxPublish
    /\ LET s == [p2p[id] EXCEPT !.published = @ + 1]
       IN Step("updateGameState", id, NoEnvelope, None, updateGameState(s, state, delta), net)

\* the payloads of chat messages that no GameP2P built: undecodable ones,
\* and contents without subType, with or without state and timestamp
NoSubType(state, timestamp) ==
    [NoEnvelope EXCEPT !.state = state, !.timestamp = timestamp]

StrayPayloads ==
    { Raw(FALSE, NoEnvelope) } \cup
    { Raw(TRUE, NoSubType(state, timestamp)) :
        state \in { Undefined, ObjState("1", "1") }, timestamp \in BOOLEAN }

\* a member of the group chat posts a message that is no game envelope
Stray(id, raw, senderId) ==
    /\ net = {}
    /\ \A q \in PeerIds : ~TimerDue(p2p[q])
    /\ id \in group
    /\ senderId \in group \ { id }
    /\ p2p[id].initialized
    /\ p2p[id].published < MaxPublish
    /\ LET s == [p2p[id] EXCEPT !.published = @ + 1]
       IN Step("onMessageReceived", id, raw.content, senderId,
               onMessageReceived(s, raw, senderId), net)

\* the game hands the input of its player to its peer
\* (ArrasP2PAdapter.sendPlayerInput)
SendPlayerInput(id) ==
    /\ net = {}
    /\ \A q \in PeerIds : ~TimerDue(p2p[q])
    /\ id \in group
    /\ p2p[id].initialized
    /\ ~p2p[id].disposed
    /\ p2p[id].published < MaxPublish
    /\ LET s == [p2p[id] EXCEPT !.published = @ + 1]
       IN Step("sendPlayerInput", id, NoEnvelope, None, sendPlayerInput(s), net)

\* a member of the group chat posts a PLAYER_LEAVE envelope; no method of
\* GameP2P builds one, the handler is there for the clients that do
PostLeave(id) ==
    /\ net = {}
    /\ \A q \in PeerIds : ~TimerDue(p2p[q])
    /\ id \in group
    /\ p2p[id].initialized
    /\ p2p[id].published < MaxPublish
    /\ LET s == [p2p[id] EXCEPT !.published = @ + 1]
           leave == Envelope("PLAYER_LEAVE", s.gameId, None, None, Undefined, FALSE, None)
       IN Step("postLeave", id, NoEnvelope, None, Result(s, { leave }, NoCallback), net)

Dispose(id) ==
    /\ p2p[id].initialized
    /\ ~p2p[id].disposed
    /\ Step("dispose", id, NoEnvelope, None, dispose(p2p[id]), net)

\* ------------------------------------------------------------------------
\* The clock advances by one step when no timer is due and the transport
\* holds no envelope.
Down(c) == IF c > 0 THEN c - 1 ELSE c
Up(a, cap) == IF a < cap THEN a + 1 ELSE a

Elapse(s) ==
    [s EXCEPT !.hostCheckInterval = Down(@),
              !.heartbeatInterval = Down(@),
              !.electionTimeouts = { c - 1 : c \in @ },
              !.welcomeTimeouts = { c - 1 : c \in @ },
              !.sinceHostHeartbeat = Up(@, HeartbeatAgeCap),
              !.sinceStateUpdate = Up(@, StateAgeCap),
              !.published = 0]

Tick(horizon) ==
    /\ now < horizon
    /\ \E id \in PeerIds : p2p[id].initialized
    /\ \A id \in PeerIds : ~TimerDue(p2p[id])
    /\ net = {}
    /\ p2p' = [id \in PeerIds |-> Elapse(p2p[id])]
    /\ now' = now + 1
    /\ last' = Idle("tick")
    /\ UNCHANGED << group, net, selfDelivering, focus, lost >>

\* ------------------------------------------------------------------------
\* A group chat of two peers on a lossy transport; they start at any time,
\* with the session id their localStorage holds.
Pairs == { g \in SUBSET PeerIds : Cardinality(g) = 2 }

Init == \E g \in Pairs : InitGroup(g)

Next ==
    \/ \E id \in PeerIds, g \in GameIds : Start(id, g)
    \/ \E d \in net : Deliver(d)
    \/ \E d \in net : Miss(d)
    \/ \E d \in net : Lose(d)
    \/ \E id \in PeerIds : HostCheckFires(id)
    \/ \E id \in PeerIds : HeartbeatFires(id)
    \/ \E id \in PeerIds : SettlementFires(id)
    \/ \E id \in PeerIds : WelcomeFires(id)
    \/ \E id \in PeerIds, state \in Snapshots, delta \in BOOLEAN : Publish(id, state, delta)
    \/ \E id \in PeerIds : Dispose(id)
    \/ Tick(MaxTime)

Spec == Init /\ [][Next]_vars

\* ------------------------------------------------------------------------
\* One shared session without message loss: the peers of the group all hold
\* the same session id, and every broadcast reaches every member (so every
\* member registered its listener before the clock first advances).
Groups == SUBSET PeerIds \ { {} }

InitElection == \E g \in Groups : InitGroup(g)

NextElection ==
    \/ \E id \in PeerIds : Start(id, "game-1")
    \/ \E d \in net : Deliver(d)
    \/ \E id \in PeerIds : HostCheckFires(id)
    \/ \E id \in PeerIds : HeartbeatFires(id)
    \/ \E id \in PeerIds : SettlementFires(id)
    \/ \E id \in PeerIds : WelcomeFires(id)
    \/ Tick(MaxElectionTime)

SpecElection == InitElection /\ [][NextElection]_vars

\* ------------------------------------------------------------------------
\* Failover: two peers of one session on a transport that loses nothing; the
\* Host publishes full snapshots, and a peer may be disposed at any time.
FullSnapshot == ObjState("1", "1")

NextFailover ==
    \/ \E id \in PeerIds : Start(id, "game-1")
    \/ \E d \in net : Deliver(d)
    \/ \E id \in PeerIds : HostCheckFires(id)
    \/ \E id \in PeerIds : HeartbeatFires(id)
    \/ \E id \in PeerIds : SettlementFires(id)
    \/ \E id \in PeerIds : WelcomeFires(id)
    \/ \E id \in PeerIds : Publish(id, FullSnapshot, FALSE)
    \/ \E id \in PeerIds : Dispose(id)
    \/ Tick(MaxFailoverTime)

SpecFailover == Init /\ [][NextFailover]_vars

\* ------------------------------------------------------------------------
\* Sessions: two peers that join at any time, each with the session id its
\* localStorage holds; the Host publishes full snapshots.
NextSession ==
    \/ \E id \in PeerIds, g \in GameIds : Start(id, g)
    \/ \E d \in net : Deliver(d)
    \/ \E d \in net : Miss(d)
    \/ \E id \in PeerIds : HostCheckFires(id)
    \/ \E id \in PeerIds : HeartbeatFires(id)
    \/ \E id \in PeerIds : SettlementFires(id)
    \/ \E id \in PeerIds : WelcomeFires(id)
    \/ \E id \in PeerIds : Publish(id, FullSnapshot, FALSE)
    \/ Tick(MaxSessionTime)

SpecSession == Init /\ [][NextSession]_vars

\* ------------------------------------------------------------------------
\* Late joins: the election and the welcome of a session of three peers,
\* before the first liveness check and the first heartbeat are due; "3" and
\* "9" open the game when the session begins, "10" joins at any time.
InitJoin == InitGroup(PeerIds)

Joiner == << 1, 0 >>

NextJoin ==
    \/ \E id \in PeerIds : (now = 0 \/ id = Joiner) /\ Start(id, "game-1")
    \/ \E d \in net : Deliver(d)
    \/ \E d \in net : d.to = Joiner /\ Miss(d)
    \/ \E id \in PeerIds : SettlementFires(id)
    \/ \E id \in PeerIds : WelcomeFires(id)
    \/ Tick(MaxJoinTime)

SpecJoin == InitJoin /\ [][NextJoin]_vars

\* ------------------------------------------------------------------------
\* Replication: two peers of one session on a transport that loses nothing;
\* the game of either peer calls updateGameState with full snapshots and
\* deltas, and other chat messages reach the listeners.
NextReplication ==
    \/ \E id \in PeerIds : Start(id, "game-1")
    \/ \E d \in net : Deliver(d)
    \/ \E id \in PeerIds : HostCheckFires(id)
    \/ \E id \in PeerIds : HeartbeatFires(id)
    \/ \E id \in PeerIds : SettlementFires(id)
    \/ \E id \in PeerIds : WelcomeFires(id)
    \/ \E id \in PeerIds, state \in Snapshots, delta \in BOOLEAN : UpdateGameState(id, state, delta)
    \/ \E id \in PeerIds, raw \in StrayPayloads, senderId \in PeerIds : Stray(id, raw, senderId)
    \/ Tick(MaxReplicationTime)

SpecReplication == Init /\ [][NextReplication]_vars

\* ------------------------------------------------------------------------
\* Starting: the election of one shared session, where the page of a peer
\* may dispatch 'pulgramready' again at any time.
NextStart ==
    \/ \E id \in PeerIds : Start(id, "game-1")
    \/ \E id \in PeerIds : Restart(id, "game-2")
    \/ \E d \in net : Deliver(d)
    \/ \E id \in PeerIds : HostCheckFires(id)
    \/ \E id \in PeerIds : HeartbeatFires(id)
    \/ \E id \in PeerIds : SettlementFires(id)
    \/ \E id \in PeerIds : WelcomeFires(id)
    \/ Tick(MaxStartTime)

SpecStart == InitElection /\ [][NextStart]_vars

\* ------------------------------------------------------------------------
\* Playing: up to three peers of one shared session on a transport that
\* loses nothing; the game of any peer sends the input of its player, and members
\* announce that they leave.
NextInput ==
    \/ \E id \in PeerIds : Start(id, "game-1")
    \/ \E d \in net : Deliver(d)
    \/ \E id \in PeerIds : HostCheckFires(id)
    \/ \E id \in PeerIds : HeartbeatFires(id)
    \/ \E id \in PeerIds : SettlementFires(id)
    \/ \E id \in PeerIds : WelcomeFires(id)
    \/ \E id \in PeerIds : SendPlayerInput(id)
    \/ \E id \in PeerIds : PostLeave(id)
    \/ Tick(MaxInputTime)

SpecInput == InitElection /\ [][NextInput]_vars

\* ------------------------------------------------------------------------
\* Properties

TypeOK ==
    /\ group \subseteq PeerIds
    /\ \A id \in PeerIds :
        /\ p2p[id].peerId = id
        /\ p2p[id].hostId \in PeerIds \cup { None }
        /\ p2p[id].sinceHostHeartbeat \in 0 .. NeverHeard
        /\ p2p[id].sinceStateUpdate \in 0 .. StateAgeCap
    /\ \A d \in net : d.to \in group

Started == { id \in group : p2p[id].initialized }
Hosts == { id \in group : p2p[id].isHost }

\* every peer of the group has run its first election settlement and none
\* has begun another election
SettledOnce ==
    /\ Started = group
    /\ \A id \in group : p2p[id].finalized = 1 /\ p2p[id].electionTimeouts = {}

\* the greatest id of a set of ids, in the order of the code's comparison
Greatest(ids) == CHOOSE g \in ids : \A o \in ids \ { g } : StrGreater(g, o)

\* C1 (convergence): in one shared session without message loss, once the
\* election settlement timer of every peer has fired, exactly one peer is
\* Host and every other peer is not.
C1_Convergence ==
    SettledOnce => Cardinality(Hosts) = 1

C1_Witness ==
    /\ group = PeerIds
    /\ SettledOnce
    /\ Cardinality(Hosts) = 1
    /\ last.op = "finalizeHostElection"

\* C2 (tie-break determinism): when the peers of the group broadcast
\* HOST_ELECTION concurrently and each receives all of them before its
\* settlement timer fires, then after the settlement the Host is the peer
\* with the lexicographically greatest id and every peer has that id as
\* hostId, whatever the order of delivery.
C2_TieBreak ==
    (SettledOnce /\ net = {}) =>
        \A id \in group :
            /\ p2p[id].hostId = Greatest(group)
            /\ p2p[id].isHost <=> (id = Greatest(group))

C2_Witness ==
    /\ group = PeerIds
    /\ SettledOnce
    /\ net = {}
    /\ p2p[<<9>>].isHost
    /\ p2p[<<1, 0>>].hostId = <<9>>
    /\ p2p[<<3>>].hostId = <<9>>

\* C4 (role matches hostId): in every reachable state a started peer is Host
\* exactly when its hostId is its own id.
C4_HostIffOwnHostId ==
    \A id \in Started : p2p[id].isHost <=> (p2p[id].hostId = id)

\* C5 (split-brain resolution): a Host that handles a GAME_STATE_UPDATE of
\* another sender of its session steps down and adopts the sender as host only if the
\* sender's id is greater than its own; otherwise it stays Host.
C5_SplitBrain ==
    (/\ last.op = "handleMessage"
     /\ last.env.subType = "GAME_STATE_UPDATE"
     /\ last.env.gameId = last.pre.gameId
     /\ last.pre.isHost
     /\ last.senderId # last.peer) =>
        IF StrGreater(last.senderId, last.peer)
        THEN ~p2p[last.peer].isHost /\ p2p[last.peer].hostId = last.senderId
        ELSE p2p[last.peer].isHost /\ p2p[last.peer].hostId = last.pre.hostId

\* C7 (directed-message filtering): a peer that receives an envelope which
\* another peer addressed to a third peer discards it: no field changes, nothing is sent
\* and no callback fires.
C7_DirectedFiltering ==
    (/\ last.op = "handleMessage"
     /\ last.senderId # last.peer
     /\ last.env.intendedRecipient # None
     /\ last.env.intendedRecipient # last.peer) =>
        /\ p2p[last.peer] = last.pre
        /\ last.send = NoSend
        /\ last.cb = NoCallback

\* C8 (foreign-session filtering): an envelope of any kind whose gameId is
\* present and differs from the receiver's is dropped: role, hostId,
\* timestamps, players and game state are unchanged and no callback fires.
C8_ForeignSession ==
    (/\ last.op = "handleMessage"
     /\ last.env.gameId # ""
     /\ last.env.gameId # last.pre.gameId) =>
        /\ p2p[last.peer].isHost = last.pre.isHost
        /\ p2p[last.peer].hostId = last.pre.hostId
        /\ p2p[last.peer].sinceHostHeartbeat = last.pre.sinceHostHeartbeat
        /\ p2p[last.peer].sinceStateUpdate = last.pre.sinceStateUpdate
        /\ p2p[last.peer].players = last.pre.players
        /\ p2p[last.peer].gameState = last.pre.gameState
        /\ last.cb = NoCallback

\* ------------------------------------------------------------------------
Live == { id \in group : p2p[id].initialized /\ ~p2p[id].disposed }

\* peer h was disposed and its heartbeat interval is cleared
Stopped(h) == p2p[h].disposed /\ p2p[h].heartbeatInterval = Off

ElectionPending(id) == p2p[id].electionTimeouts # {}

\* C3 (failover): when the Host has stopped emitting heartbeats, a live
\* Follower that had it as host keeps it at most 5000 ms + 3000 ms after the
\* last heartbeat it accepted, and once the election it then started has
\* settled some live peer is Host.
C3_Failover ==
    \A h \in group : \A f \in Live \ { h } :
        Stopped(h) =>
            /\ (p2p[f].hostId = h /\ ~p2p[f].isHost /\ p2p[f].sinceHostHeartbeat # NeverHeard)
                   => Ms(p2p[f].sinceHostHeartbeat) <= HOST_TIMEOUT_MS + HOST_CHECK_MS
            /\ (/\ last.op = "finalizeHostElection"
                /\ last.peer = f
                /\ last.pre.hostId = None
                /\ \A id \in Live : ~ElectionPending(id))
                   => \E id \in Live : p2p[id].isHost

\* startHostElection ran in the last step
ElectionStarted ==
    \E e \in last.send : e.subType = "HOST_ELECTION"

\* C6 as stated (join suppression): a peer that has observed a
\* GAME_STATE_UPDATE within the last 10 s never initiates startElection(),
\* neither from start() nor from the liveness check.
C6_NoElectionWhileStateFlows ==
    ElectionStarted => ~RecentStateUpdate(last.pre)

\* C6 as amended: a peer that has observed a GAME_STATE_UPDATE within the
\* last 10 s may still initiate startElection(), but the settlement of that
\* election aborts: the peer does not promote itself, changes neither role
\* nor hostId, starts no heartbeat, broadcasts nothing and fires no callback.
C6_JoinSuppression ==
    (last.op = "finalizeHostElection" /\ RecentStateUpdate(last.pre)) =>
        /\ p2p[last.peer].isHost = last.pre.isHost
        /\ p2p[last.peer].hostId = last.pre.hostId
        /\ p2p[last.peer].heartbeatInterval = last.pre.heartbeatInterval
        /\ last.send = NoSend
        /\ last.cb = NoCallback

C6_Witness ==
    /\ last.op = "finalizeHostElection"
    /\ RecentStateUpdate(last.pre)
    /\ last.pre.hostId = None
    /\ ~p2p[last.peer].isHost

TimerHandlers ==
    { "checkHostStatus", "heartbeat", "finalizeHostElection", "sendWelcomeToAllPeers" }

\* C9 (disposal cancels every timer): after dispose() no timer handler of
\* the peer runs any more.
C9_DisposedRunsNoTimer ==
    last.op \in TimerHandlers => ~last.pre.disposed

\* C10 (self-recovery): no reachable state leaves the live peers without a
\* Host for ever: when no live peer is Host, some live peer has an election
\* settlement pending, or knows a host whose silence its liveness check will
\* detect, or an envelope is still to be delivered.
C10_SelfRecovery ==
    (Live # {} /\ \A id \in Live : ~p2p[id].isHost) =>
        \/ \E id \in Live : ElectionPending(id) \/ p2p[id].hostId # None
        \/ net # {}

\* ------------------------------------------------------------------------
\* the handler that ran in the last step handled an envelope of this kind
Handled(subType) ==
    /\ last.op = "handleMessage"
    /\ last.env.subType = subType

\* the envelope handled in the last step passed the session filter
SameSession ==
    last.env.gameId = "" \/ last.env.gameId = last.pre.gameId

\* C11 (Host is terminal): a Host leaves that role only through disposal,
\* through a HOST_ASSIGNMENT naming another host or through a
\* GAME_STATE_UPDATE of another sender; handling a HOST_ELECTION or a
\* HOST_HEARTBEAT never ends it.
C11_HostTerminal ==
    (/\ last.peer \in PeerIds
     /\ last.pre.isHost
     /\ ~p2p[last.peer].isHost) =>
        \/ last.op = "dispose"
        \/ Handled("HOST_ASSIGNMENT") /\ last.env.hostId # last.peer
        \/ Handled("GAME_STATE_UPDATE") /\ last.senderId # last.peer

\* C12 (heartbeat guard): a HOST_HEARTBEAT whose sender is the receiver's
\* current hostId updates lastHostHeartbeat and nothing else; a heartbeat of
\* any other sender changes no field; neither sends anything nor fires a
\* callback.
C12_HeartbeatGuard ==
    Handled("HOST_HEARTBEAT") =>
        /\ last.send = NoSend
        /\ last.cb = NoCallback
        /\ IF last.senderId = last.pre.hostId
           THEN /\ p2p[last.peer] \in { last.pre, [last.pre EXCEPT !.sinceHostHeartbeat = 0] }
                /\ SameSession => p2p[last.peer].sinceHostHeartbeat = 0
           ELSE p2p[last.peer] = last.pre

\* a peer that knows a host ignores the heartbeat of another peer of its
\* session
C12_Witness ==
    /\ Handled("HOST_HEARTBEAT")
    /\ SameSession
    /\ last.senderId # last.pre.hostId
    /\ last.pre.hostId # None
    /\ p2p[last.peer] = last.pre

\* a peer accepts the heartbeat of its host
C12_Accepted ==
    /\ Handled("HOST_HEARTBEAT")
    /\ last.senderId = last.pre.hostId
    /\ last.pre.sinceHostHeartbeat > 0
    /\ p2p[last.peer].sinceHostHeartbeat = 0

\* C13 (idempotence of full snapshots): after a peer has handled a full
\* GAME_STATE_UPDATE, handling the same envelope once more leaves its game
\* state, its role and its hostId as they are.
C13_FullSnapshotIdempotent ==
    (Handled("GAME_STATE_UPDATE") /\ ~last.env.isDelta) =>
        LET once == p2p[last.peer]
            twice == handleMessage(once, last.env, last.senderId).s
        IN /\ twice.gameState = once.gameState
           /\ twice.isHost = once.isHost
           /\ twice.hostId = once.hostId

\* a full snapshot that changed the game state and the host of its receiver
C13_Witness ==
    /\ Handled("GAME_STATE_UPDATE")
    /\ ~last.env.isDelta
    /\ last.pre.gameState.tag = "object"
    /\ p2p[last.peer].gameState # last.pre.gameState
    /\ p2p[last.peer].hostId # last.pre.hostId

\* C14 (publish is Host-only): updateGameState called on a peer that is not
\* Host broadcasts nothing, fires no callback and leaves the game state and
\* every other field of the peer unchanged.
C14_PublishHostOnly ==
    (last.op = "updateGameState" /\ ~last.pre.isHost) =>
        /\ last.send = NoSend
        /\ last.cb = NoCallback
        /\ p2p[last.peer] = [last.pre EXCEPT !.published = p2p[last.peer].published]

\* a Follower that knows its host called updateGameState
C14_Witness ==
    /\ last.op = "updateGameState"
    /\ ~last.pre.isHost
    /\ last.pre.hostId \in group \ { last.peer }
    /\ last.send = NoSend
    /\ p2p[last.peer].gameState = last.pre.gameState

\* C15 (malformed envelopes are dropped): a payload that cannot be decoded,
\* or whose content has no subType, changes neither role, hostId,
\* timestamps, players nor game state of its receiver and fires no callback.
C15_MalformedDropped ==
    (last.op = "onMessageReceived" /\ last.env.subType = "") =>
        /\ p2p[last.peer].isHost = last.pre.isHost
        /\ p2p[last.peer].hostId = last.pre.hostId
        /\ p2p[last.peer].sinceHostHeartbeat = last.pre.sinceHostHeartbeat
        /\ p2p[last.peer].sinceStateUpdate = last.pre.sinceStateUpdate
        /\ p2p[last.peer].players = last.pre.players
        /\ p2p[last.peer].gameState = last.pre.gameState
        /\ last.cb = NoCallback

\* C16 (the session id is stable): once initialize() has set gameId, no
\* message handler and no timer handler gives it another value before
\* disposal.
C16_GameIdStable ==
    (/\ last.peer \in PeerIds
     /\ last.pre.initialized
     /\ ~last.pre.disposed) =>
        p2p[last.peer].gameId = last.pre.gameId

\* C17 (split-brain guard on election messages): a peer that handles a
\* HOST_ELECTION while it has seen a state snapshot within the last 10 s
\* takes no action: its role, its hostId and its timestamps are as before.
C17_ElectionGuard ==
    (/\ Handled("HOST_ELECTION")
     /\ SameSession
     /\ RecentStateUpdate(last.pre)) =>
        /\ p2p[last.peer].isHost = last.pre.isHost
        /\ p2p[last.peer].hostId = last.pre.hostId
        /\ p2p[last.peer].sinceHostHeartbeat = last.pre.sinceHostHeartbeat
        /\ p2p[last.peer].sinceStateUpdate = last.pre.sinceStateUpdate

\* C18 (election by id): a peer with no snapshot within the last 10 s that
\* handles a HOST_ELECTION takes a candidate greater than its own id as its
\* host and is a Follower; a candidate less than or equal to its own id
\* leaves its role and its hostId unchanged.
C18_ElectionById ==
    (/\ Handled("HOST_ELECTION")
     /\ SameSession
     /\ ~RecentStateUpdate(last.pre)) =>
        IF StrGreater(last.env.candidateId, last.peer)
        THEN /\ p2p[last.peer].hostId = last.env.candidateId
             /\ ~p2p[last.peer].isHost
        ELSE /\ p2p[last.peer].hostId = last.pre.hostId
             /\ p2p[last.peer].isHost = last.pre.isHost

\* a peer that knew no host takes the greater candidate as its host
C18_Witness ==
    /\ Handled("HOST_ELECTION")
    /\ SameSession
    /\ ~RecentStateUpdate(last.pre)
    /\ StrGreater(last.env.candidateId, last.peer)
    /\ last.pre.hostId = None
    /\ p2p[last.peer].hostId = last.env.candidateId

\* a peer ignores a candidate lesser than itself
C18_Lesser ==
    /\ Handled("HOST_ELECTION")
    /\ SameSession
    /\ ~RecentStateUpdate(last.pre)
    /\ StrGreater(last.peer, last.env.candidateId)
    /\ p2p[last.peer] = last.pre

\* the fields of the peer before the settlement timeout that fired in the
\* last step, its timeout taken off the pending ones
BeforeSettlement ==
    [last.pre EXCEPT !.electionTimeouts = p2p[last.peer].electionTimeouts,
                     !.finalized = p2p[last.peer].finalized]

\* C19 (settlement): finalizeHostElection with a snapshot seen within the
\* last 10 s changes no state and sends nothing; otherwise a peer that knows
\* no host, or names itself, becomes Host; otherwise it is a Follower, its
\* hostId is unchanged and it sends nothing.
C19_Settlement ==
    (last.op = "finalizeHostElection") =>
        IF RecentStateUpdate(last.pre)
        THEN /\ p2p[last.peer] = BeforeSettlement
             /\ last.send = NoSend
             /\ last.cb = NoCallback
        ELSE IF last.pre.hostId \in { None, last.peer }
             THEN /\ p2p[last.peer].isHost
                  /\ p2p[last.peer].hostId = last.peer
                  /\ \E e \in last.send : e.subType = "HOST_ASSIGNMENT" /\ e.hostId = last.peer
             ELSE /\ ~p2p[last.peer].isHost
                  /\ p2p[last.peer].hostId = last.pre.hostId
                  /\ last.send = NoSend

\* a peer that knows no host and has seen no snapshot promotes itself
C19_Witness ==
    /\ last.op = "finalizeHostElection"
    /\ ~RecentStateUpdate(last.pre)
    /\ last.pre.hostId = None
    /\ ~last.pre.isHost
    /\ p2p[last.peer].isHost

\* a settlement that a recent snapshot aborts
C19_Aborted ==
    /\ last.op = "finalizeHostElection"
    /\ RecentStateUpdate(last.pre)
    /\ p2p[last.peer] = BeforeSettlement

\* a settlement of a peer that knows another host
C19_Follower ==
    /\ last.op = "finalizeHostElection"
    /\ ~RecentStateUpdate(last.pre)
    /\ last.pre.hostId \in group \ { last.peer }
    /\ ~p2p[last.peer].isHost

\* C20 (heartbeats are Host-only): a peer broadcasts HOST_HEARTBEAT only
\* while it is Host; once demoted it broadcasts none until it is promoted
\* again.
C20_HeartbeatHostOnly ==
    (/\ last.peer \in PeerIds
     /\ \E e \in last.send : e.subType = "HOST_HEARTBEAT") =>
        last.pre.isHost

\* the fields of the peer before the liveness check that ran in the last
\* step, its interval counting again
BeforeCheck ==
    [last.pre EXCEPT !.hostCheckInterval = p2p[last.peer].hostCheckInterval]

\* an election was started in the last step
ElectionBegun ==
    \E e \in last.send : e.subType = "HOST_ELECTION"

\* C21 (liveness check): checkHostStatus does nothing on a Host; on a
\* non-Host that knows a host whose last heartbeat is more than 5000 ms old
\* it clears hostId and starts an election; in every other case it changes
\* nothing.  Nothing else resets hostId to None, and an election is started
\* only by initialize() and by this check.
C21_LivenessCheck ==
    /\ (last.op = "checkHostStatus") =>
          IF ~last.pre.isHost /\ last.pre.hostId # None /\ HeartbeatOverdue(last.pre)
          THEN /\ p2p[last.peer].hostId = None
               /\ ElectionBegun
               /\ p2p[last.peer].electionTimeouts =
                      last.pre.electionTimeouts \cup { Ticks(SETTLE_MS) }
               /\ p2p[last.peer].isHost = last.pre.isHost
          ELSE /\ p2p[last.peer] = BeforeCheck
               /\ last.send = NoSend
               /\ last.cb = NoCallback
    /\ (/\ last.peer \in PeerIds
        /\ last.pre.hostId # None
        /\ p2p[last.peer].hostId = None) => last.op = "checkHostStatus"
    /\ ElectionBegun => last.op \in { "initialize", "checkHostStatus" }

\* a Follower whose host fell silent clears its hostId and starts an election
C21_Witness ==
    /\ last.op = "checkHostStatus"
    /\ ~last.pre.isHost
    /\ last.pre.hostId \in group \ { last.peer }
    /\ last.pre.sinceHostHeartbeat < NeverHeard
    /\ p2p[last.peer].hostId = None
    /\ ElectionBegun

\* the check of a Host whose own heartbeat time is overdue
C21_HostSkipped ==
    /\ last.op = "checkHostStatus"
    /\ last.pre.isHost
    /\ HeartbeatOverdue(last.pre)
    /\ p2p[last.peer] = BeforeCheck

\* the check of a Follower whose host was heard in time
C21_HostAlive ==
    /\ last.op = "checkHostStatus"
    /\ ~last.pre.isHost
    /\ last.pre.hostId # None
    /\ ~HeartbeatOverdue(last.pre)
    /\ p2p[last.peer] = BeforeCheck

\* the handler that ran in the last step fired this callback
Fired(name) ==
    \E i \in DOMAIN last.cb : last.cb[i].name = name

\* C22 (implicit host discovery): a peer that handles a GAME_STATE_UPDATE
\* records the time of the snapshot; if the sender is not its hostId it
\* takes the sender as hostId, is a Follower and fires onHostChanged; if the
\* sender is its hostId, role and hostId are unchanged and onHostChanged is
\* not fired.
C22_HostDiscovery ==
    Handled("GAME_STATE_UPDATE") =>
        /\ p2p[last.peer].sinceStateUpdate = 0
        /\ IF last.senderId # last.pre.hostId
           THEN /\ p2p[last.peer].hostId = last.senderId
                /\ ~p2p[last.peer].isHost
                /\ \E i \in DOMAIN last.cb :
                      last.cb[i] = Callback("onHostChanged", last.senderId, FALSE)
           ELSE /\ p2p[last.peer].hostId = last.pre.hostId
                /\ p2p[last.peer].isHost = last.pre.isHost
                /\ ~Fired("onHostChanged")

\* a Host takes the sender of a snapshot as its host and steps down
C22_Witness ==
    /\ Handled("GAME_STATE_UPDATE")
    /\ last.pre.isHost
    /\ last.senderId \notin { last.peer, last.pre.hostId }
    /\ p2p[last.peer].hostId = last.senderId
    /\ ~p2p[last.peer].isHost
    /\ Fired("onHostChanged")

\* a Follower handles a snapshot of the host it knows
C22_KnownHost ==
    /\ Handled("GAME_STATE_UPDATE")
    /\ last.senderId = last.pre.hostId
    /\ last.senderId # last.peer
    /\ last.pre.sinceStateUpdate > 0
    /\ ~Fired("onHostChanged")

\* C23 (assignments are adopted unconditionally): after a peer has handled
\* a HOST_ASSIGNMENT announcing host H its hostId is H and it is Host iff H
\* is its own id, whatever its role and hostId were before, and
\* onHostChanged is fired; an assignment handled after it overrides it.
C23_AssignmentAdopted ==
    (Handled("HOST_ASSIGNMENT") /\ SameSession) =>
        /\ p2p[last.peer].hostId = last.env.hostId
        /\ p2p[last.peer].isHost = (last.env.hostId = last.peer)
        /\ last.cb = << Callback("onHostChanged", last.env.hostId,
                                 last.env.hostId = last.peer) >>
        /\ \A h \in PeerIds :
              LET later == handleMessage(p2p[last.peer], [last.env EXCEPT !.hostId = h], h).s
              IN /\ later.hostId = h
                 /\ later.isHost = (h = last.peer)

\* a Host handles the assignment of another peer and steps down
C23_Witness ==
    /\ Handled("HOST_ASSIGNMENT")
    /\ SameSession
    /\ last.pre.isHost
    /\ last.pre.hostId = last.peer
    /\ last.env.hostId # last.peer
    /\ p2p[last.peer].hostId = last.env.hostId
    /\ ~p2p[last.peer].isHost

\* becomeHost() ran in the last step: a settlement without a recent
\* snapshot of a peer that knew no host or named itself
Promoted ==
    /\ last.op = "finalizeHostElection"
    /\ ~RecentStateUpdate(last.pre)
    /\ last.pre.hostId \in { None, last.peer }

\* C24 (promotion): becomeHost sets isHost and hostId = own id, broadcasts
\* exactly one HOST_ASSIGNMENT carrying the own id, starts the recurring
\* heartbeat and fires onHostChanged(own id, true).
C24_Promotion ==
    /\ Promoted =>
          /\ p2p[last.peer].isHost
          /\ p2p[last.peer].hostId = last.peer
          /\ last.send = { Envelope("HOST_ASSIGNMENT", last.pre.gameId, None, last.peer,
                                    Undefined, FALSE, None) }
          /\ p2p[last.peer].heartbeatInterval = Ticks(HEARTBEAT_MS)
          /\ last.cb = << Callback("onHostChanged", last.peer, TRUE) >>
    /\ (last.op = "heartbeat") =>
          /\ p2p[last.peer].heartbeatInterval = Ticks(HEARTBEAT_MS)
          /\ \E e \in last.send : e.subType = "HOST_HEARTBEAT"

\* a peer that was no Host and had no heartbeat interval promotes itself
C24_Witness ==
    /\ Promoted
    /\ ~last.pre.isHost
    /\ last.pre.heartbeatInterval = Off
    /\ p2p[last.peer].isHost
    /\ p2p[last.peer].heartbeatInterval = Ticks(HEARTBEAT_MS)

\* C25 (first-snapshot notification): the first GAME_STATE_UPDATE a peer
\* handles while its state is still the marker 'connecting' fires
\* onGameConnected, whatever the payload and whether full or delta; a
\* snapshot handled by a peer whose state is no longer the marker does not.
C25_FirstSnapshotConnects ==
    Handled("GAME_STATE_UPDATE") =>
        (Fired("onGameConnected") <=> last.pre.gameState = StrState("connecting"))

\* C26 (publishing a delta): updateGameState on a Host stores the snapshot
\* as its state only when it is a full snapshot; a delta is broadcast with
\* isDelta set and leaves the state of the Host unchanged.
C26_DeltaLeavesCanonical ==
    (last.op = "updateGameState" /\ last.pre.isHost) =>
        /\ \E e \in last.send : e.subType = "GAME_STATE_UPDATE"
        /\ \A e \in last.send :
              IF e.isDelta
              THEN p2p[last.peer].gameState = last.pre.gameState
              ELSE p2p[last.peer].gameState = e.state

\* C27 (applying a snapshot): a full GAME_STATE_UPDATE replaces the state
\* of its receiver with the payload; a delta overwrites exactly the
\* top-level fields present in the payload and leaves every other field of
\* the state unchanged.
C27_SnapshotApplied ==
    Handled("GAME_STATE_UPDATE") =>
        IF last.env.isDelta
        THEN /\ p2p[last.peer].gameState.tag = "object"
             /\ \A k \in Fields :
                   p2p[last.peer].gameState.f[k] =
                       IF last.env.state.f[k] # Absent THEN last.env.state.f[k]
                       ELSE last.pre.gameState.f[k]
        ELSE p2p[last.peer].gameState = last.env.state

\* the envelope handled in the last step is one the receiver sent itself
OwnMessage ==
    /\ last.senderId = last.peer
    /\ last.env.subType \in { "HOST_ELECTION", "HOST_HEARTBEAT", "HOST_ASSIGNMENT",
                              "GAME_STATE_UPDATE" }

\* the envelope handled in the last step is the election message of another
\* peer whose candidate does not beat the receiver
LesserElection ==
    /\ last.senderId # last.peer
    /\ last.env.subType = "HOST_ELECTION"
    /\ ~StrGreater(last.env.candidateId, last.peer)

\* C28 (self-delivery tolerance): on a transport that delivers a peer its
\* own broadcasts, a Host that handles its own HOST_ELECTION,
\* HOST_HEARTBEAT, HOST_ASSIGNMENT and GAME_STATE_UPDATE messages,
\* interleaved with election messages of other peers, stays Host with its
\* own id as hostId.
C28_SelfDeliveryTolerated ==
    (/\ selfDelivering
     /\ last.op = "handleMessage"
     /\ SameSession
     /\ last.pre.isHost
     /\ last.pre.hostId = last.peer
     /\ OwnMessage \/ LesserElection) =>
        /\ p2p[last.peer].isHost
        /\ p2p[last.peer].hostId = last.peer

\* C29 (start): initialize() sets the liveness check interval, announces
\* the peer with PLAYER_JOIN and starts an election if and only if the peer
\* knows no host at that moment; on a peer that is initialized already it
\* does nothing.
C29_Start ==
    (last.op = "initialize") =>
        IF last.pre.initialized
        THEN /\ p2p[last.peer] = last.pre
             /\ last.send = NoSend
             /\ last.cb = NoCallback
        ELSE /\ p2p[last.peer].initialized
             /\ p2p[last.peer].hostCheckInterval = Ticks(HOST_CHECK_MS)
             /\ \E e \in last.send : e.subType = "PLAYER_JOIN"
             /\ ElectionBegun <=> last.pre.hostId = None
             /\ p2p[last.peer].electionTimeouts =
                    IF last.pre.hostId = None THEN { Ticks(SETTLE_MS) } ELSE {}

\* initialize() is called on a peer that is a Follower of a known host
C29_Witness ==
    /\ last.op = "initialize"
    /\ last.pre.initialized
    /\ last.pre.hostId \in group \ { last.peer }
    /\ last.pre.electionTimeouts = {}
    /\ p2p[last.peer] = last.pre
    /\ last.send = NoSend

\* the first start of a peer begins its election
C29_FirstStart ==
    /\ last.op = "initialize"
    /\ ~last.pre.initialized
    /\ ElectionBegun
    /\ p2p[last.peer].hostCheckInterval = Ticks(HOST_CHECK_MS)

\* C30 (newcomer catch-up): a peer that handles a PLAYER_JOIN of peer P has
\* P in its membership map afterwards; a Host also sends one full state
\* snapshot directed to P; a peer that is no Host sends nothing.
C30_CatchUp ==
    (Handled("PLAYER_JOIN") /\ SameSession) =>
        /\ last.senderId \in p2p[last.peer].players
        /\ p2p[last.peer].players = last.pre.players \cup { last.senderId }
        /\ IF last.pre.isHost
           THEN last.send = { Envelope("GAME_STATE_UPDATE", last.pre.gameId, None, None,
                                       last.pre.gameState, FALSE, last.senderId) }
           ELSE last.send = NoSend

\* a Host that has published a snapshot sends it to a newcomer
C30_Witness ==
    /\ Handled("PLAYER_JOIN")
    /\ SameSession
    /\ last.pre.isHost
    /\ last.senderId # last.peer
    /\ last.pre.gameState.tag = "object"
    /\ \E e \in last.send :
          /\ e.state = last.pre.gameState
          /\ ~e.isDelta
          /\ e.intendedRecipient = last.senderId

\* a peer that is no Host records a newcomer and sends nothing
C30_Follower ==
    /\ Handled("PLAYER_JOIN")
    /\ SameSession
    /\ ~last.pre.isHost
    /\ last.senderId \notin last.pre.players
    /\ last.senderId \in p2p[last.peer].players
    /\ last.send = NoSend

\* C31 (membership bookkeeping): the membership map of a peer gains the
\* sender of every PLAYER_JOIN it handles and loses the sender of every
\* PLAYER_LEAVE it handles; no other message and no timer adds or removes a
\* record.
C31_Membership ==
    last.peer \in PeerIds =>
        p2p[last.peer].players =
            IF Handled("PLAYER_JOIN") /\ SameSession
            THEN last.pre.players \cup { last.senderId }
            ELSE IF Handled("PLAYER_LEAVE") /\ SameSession
            THEN last.pre.players \ { last.senderId }
            ELSE last.pre.players

\* a peer removes the record of a member that announced it leaves
C31_Witness ==
    /\ Handled("PLAYER_LEAVE")
    /\ SameSession
    /\ last.senderId \in last.pre.players
    /\ last.senderId \notin p2p[last.peer].players

\* a peer whose map holds a record handles a message of another kind
C31_OtherKind ==
    /\ last.op = "handleMessage"
    /\ last.env.subType \in { "HOST_ELECTION", "HOST_HEARTBEAT", "HOST_ASSIGNMENT",
                              "PLAYER_INPUT", "welcome" }
    /\ last.pre.players # {}
    /\ p2p[last.peer].players = last.pre.players

\* the PLAYER_INPUT envelopes sent in the last step
InputsSent ==
    { e \in last.send : e.subType = "PLAYER_INPUT" }

\* C32 (every input names the believed host): every PLAYER_INPUT a peer
\* sends carries a target, the host the sender believes in; a Host sends no
\* PLAYER_INPUT.
C32_InputTargetsHost ==
    \A e \in InputsSent :
        /\ ~last.pre.isHost
        /\ e.intendedRecipient # None
        /\ e.intendedRecipient = last.pre.hostId

\* C32 as the code has it: a PLAYER_INPUT sent by a peer that knows a host
\* names that host as intendedRecipient; one sent by a peer that knows no
\* host names nobody; a Host sends no PLAYER_INPUT, and every other peer
\* sends exactly one per call of sendPlayerInput.
C32_InputTargetsKnownHost ==
    /\ \A e \in InputsSent :
          /\ last.op = "sendPlayerInput"
          /\ ~last.pre.isHost
          /\ e.intendedRecipient = last.pre.hostId
    /\ (last.op = "sendPlayerInput") =>
          /\ p2p[last.peer] = [last.pre EXCEPT !.published = p2p[last.peer].published]
          /\ IF last.pre.isHost THEN last.send = NoSend
             ELSE last.send = InputsSent /\ Cardinality(InputsSent) = 1

\* a Follower sends the input of its player to the host it knows
C32_Witness ==
    /\ last.op = "sendPlayerInput"
    /\ ~last.pre.isHost
    /\ last.pre.hostId \in group \ { last.peer }
    /\ \E e \in InputsSent : e.intendedRecipient = last.pre.hostId

\* a Host is asked to send the input of its player
C32_HostSilent ==
    /\ last.op = "sendPlayerInput"
    /\ last.pre.isHost
    /\ last.send = NoSend

\* C33 (input is consumed by the authority only): a PLAYER_INPUT fires
\* onPlayerInput only on a peer that is Host when it handles it; on any
\* other peer it changes no state and fires no callback.
C33_InputHostOnly ==
    (Handled("PLAYER_INPUT") /\ SameSession) =>
        /\ p2p[last.peer] = last.pre
        /\ last.send = NoSend
        /\ IF last.pre.isHost
           THEN last.cb = << Callback("onPlayerInput", last.senderId, FALSE) >>
           ELSE last.cb = NoCallback

\* a peer that is no Host handles the input of another peer
C33_Witness ==
    /\ Handled("PLAYER_INPUT")
    /\ SameSession
    /\ ~last.pre.isHost
    /\ last.senderId # last.peer
    /\ last.cb = NoCallback
    /\ p2p[last.peer] = last.pre

\* a Host takes the input of a Follower
C33_Consumed ==
    /\ Handled("PLAYER_INPUT")
    /\ last.pre.isHost
    /\ last.senderId # last.peer
    /\ Fired("onPlayerInput")

\* C34 (duplicate tolerance): after a peer has handled a HOST_HEARTBEAT or
\* a GAME_STATE_UPDATE, full or delta, handling the same envelope of the
\* same sender once more changes its role, its hostId, its membership and
\* its game state in nothing; only the two ages may be reset.
C34_DuplicateTolerated ==
    (Handled("HOST_HEARTBEAT") \/ Handled("GAME_STATE_UPDATE")) =>
        LET once == p2p[last.peer]
            twice == handleMessage(once, last.env, last.senderId).s
        IN twice = [once EXCEPT !.sinceHostHeartbeat = twice.sinceHostHeartbeat,
                                !.sinceStateUpdate = twice.sinceStateUpdate]

\* a delta that changed the game state of its receiver
C34_Witness ==
    /\ Handled("GAME_STATE_UPDATE")
    /\ last.env.isDelta
    /\ last.senderId # last.peer
    /\ p2p[last.peer].gameState # last.pre.gameState

\* a heartbeat of the host that its Follower accepted
C34_HeartbeatAccepted ==
    /\ Handled("HOST_HEARTBEAT")
    /\ SameSession
    /\ last.pre.hostId = last.senderId
    /\ last.senderId # last.peer
    /\ last.pre.sinceHostHeartbeat > 0
    /\ p2p[last.peer].sinceHostHeartbeat = 0

\* the peer is a started Host whose heartbeat interval was set before this
\* instant and owes no heartbeat at this instant
EmittingHost(h) ==
    /\ h \in group
    /\ p2p[h].initialized
    /\ ~p2p[h].disposed
    /\ p2p[h].isHost
    /\ p2p[h].heartbeatInterval > 0
    /\ p2p[h].heartbeatInterval < Ticks(HEARTBEAT_MS)

\* C35 (no false failover): while no message has been lost, the liveness
\* check of a Follower whose hostId names a Host that is alive and has sent
\* every heartbeat its interval has come to, none of them still on its
\* way to the Follower, neither clears the hostId nor starts an election.
C35_NoFalseFailover ==
    (/\ last.op = "checkHostStatus"
     /\ lost = 0
     /\ ~last.pre.isHost
     /\ last.pre.hostId \in PeerIds \ { last.peer }
     /\ EmittingHost(last.pre.hostId)
     /\ ~\E d \in net : d.to = last.peer /\ d.env.subType = "HOST_HEARTBEAT") =>
        /\ p2p[last.peer].hostId = last.pre.hostId
        /\ ~ElectionBegun

\* C36 (no idle hostless peer): a started peer that is not disposed, knows
\* no host and is no Host has an election settlement timer pending.
C36_NoIdleHostless ==
    \A id \in group :
        (/\ p2p[id].initialized
         /\ ~p2p[id].disposed
         /\ p2p[id].hostId = None
         /\ ~p2p[id].isHost) =>
            p2p[id].electionTimeouts # {}

\* C37 (host-changed notifications track the coordinator): a message
\* handler, a settlement or a liveness check that changes the hostId or the
\* role of its peer fires onHostChanged with the new hostId and the new role.
C37_HostChangeNotified ==
    (/\ last.op \in { "handleMessage", "finalizeHostElection", "checkHostStatus" }
     /\ << p2p[last.peer].hostId, p2p[last.peer].isHost >>
            # << last.pre.hostId, last.pre.isHost >>) =>
        \E i \in DOMAIN last.cb :
            last.cb[i] = Callback("onHostChanged", p2p[last.peer].hostId, p2p[last.peer].isHost)

\* C38 (a Host emits heartbeats): a started peer that is not disposed and
\* whose role is Host has its heartbeat interval running.
C38_HostHasHeartbeat ==
    \A id \in group :
        (/\ p2p[id].initialized
         /\ ~p2p[id].disposed
         /\ p2p[id].isHost) =>
            p2p[id].heartbeatInterval # Off

\* a peer that was no Host is made Host by a welcome or a HOST_ASSIGNMENT
\* naming it, and its heartbeat interval is running
C38_Witness ==
    /\ Handled("welcome") \/ Handled("HOST_ASSIGNMENT")
    /\ last.env.hostId = last.peer
    /\ ~last.pre.isHost
    /\ p2p[last.peer].isHost
    /\ ~p2p[last.peer].disposed
    /\ p2p[last.peer].heartbeatInterval # Off

\* C39 (welcome handling): after a peer has handled a welcome announcing
\* host H its hostId is H, and it is Host exactly when H is its own id.
C39_WelcomeSetsRole ==
    Handled("welcome") =>
        /\ p2p[last.peer].hostId = last.env.hostId
        /\ p2p[last.peer].isHost = (last.env.hostId = last.peer)

\* C40 (timer uniqueness): a peer has at most one heartbeat interval set
\* and not cleared, and at most one election settlement timer pending.
C40_TimerUniqueness ==
    \A id \in group :
        /\ p2p[id].heartbeatTimers <= 1
        /\ p2p[id].heartbeatTimers = (IF p2p[id].heartbeatInterval # Off THEN 1 ELSE 0)
        /\ Cardinality(p2p[id].electionTimeouts) <= 1

\* a peer whose heartbeat interval is set promotes itself once more
C40_Witness ==
    /\ last.op = "finalizeHostElection"
    /\ last.pre.heartbeatInterval # Off
    /\ last.pre.heartbeatTimers = 1
    /\ Fired("onHostChanged")
    /\ p2p[last.peer].heartbeatTimers = 1

\* a liveness check starts an election after an earlier one has settled
C40_SecondElection ==
    /\ last.op = "checkHostStatus"
    /\ ElectionBegun
    /\ last.pre.finalized > 0
    /\ last.pre.electionTimeouts = {}


====
